---- MODULE Spec2Model ----
(***************************************************************************)
(* A model of MnistBenchmark/Include/NeuralNetwork.h: the three-layer      *)
(* network NeuralNetwork<NumInputNodes, NumHiddenNodes, NumOutputNodes>,   *)
(* its constructor, Query and Train.                                       *)
(*                                                                         *)
(* float is modelled as a small binary floating-point format: a value is   *)
(* an integer count of quanta of 1/Scale, and every arithmetic result is   *)
(* rounded to MantBits significant bits (round to nearest, ties to even).  *)
(* Infinities and NaN are not represented: the model's inputs keep every   *)
(* intermediate value finite.                                              *)
(***************************************************************************)
EXTENDS Integers, Sequences, FiniteSets, TLC

\* ------------------------------------------------------------ dimensions
NumInputNodes == 2
NumHiddenNodes == 2
NumOutputNodes == 2

\* ------------------------------------------------------------ float model
Scale == 16
MantBits == 5
One == Scale

Abs(x) == IF x < 0 THEN -x ELSE x

RECURSIVE Pow2(_)
Pow2(n) == IF n = 0 THEN 1 ELSE 2 * Pow2(n - 1)

\* n / d rounded to the nearest integer, ties to even (d > 0)
RoundDiv(n, d) ==
    LET a == Abs(n)
        q == a \div d
        r == a % d
        m == IF 2 * r > d \/ (2 * r = d /\ q % 2 = 1) THEN q + 1 ELSE q
    IN  IF n < 0 THEN -m ELSE m

\* the spacing of representable values at magnitude a
RECURSIVE Ulp(_)
Ulp(a) == IF a < Pow2(MantBits) THEN 1 ELSE 2 * Ulp(a \div 2)

\* the representable value nearest to x
Fl(x) == RoundDiv(x, Ulp(Abs(x))) * Ulp(Abs(x))

FAdd(a, b) == Fl(a + b)
FSub(a, b) == Fl(a - b)
FMul(a, b) == Fl(RoundDiv(a * b, Scale))
FDiv(a, b) == Fl(RoundDiv(a * Scale, b))

\* 1000 * e^(r/16) for r = 0..15
ExpFracMilli ==
    << 1000, 1064, 1133, 1206, 1284, 1367, 1455, 1549,
       1649, 1755, 1868, 1989, 2117, 2254, 2399, 2554 >>

\* 100 * e^q for q = 0..8
ExpWholeCenti == << 100, 272, 739, 2009, 5460, 14841, 40343, 109663, 298096 >>

\* the largest magnitude of an argument std::exp is evaluated at; beyond it
\* the result is out of the format's range either way
ExpArgMax == 8 * Scale

\* 100 * e^(a/Scale) for 0 <= a <= ExpArgMax
ExpPosCenti(a) ==
    (ExpWholeCenti[(a \div Scale) + 1] * ExpFracMilli[(a % Scale) + 1]) \div 1000

\* std::exp(float)
FExp(x) ==
    LET a == IF Abs(x) > ExpArgMax THEN ExpArgMax ELSE Abs(x)
    IN  IF x >= 0 THEN Fl(RoundDiv(ExpPosCenti(a) * Scale, 100))
                  ELSE Fl(RoundDiv(100 * Scale, ExpPosCenti(a)))

\* the sigmoid without its reciprocal
SigmoidNoReciprocal(value) == FAdd(One, FExp(-value))

\* 1 / (1 + std::exp(-value))
Sigmoid(value) == FDiv(One, FAdd(One, FExp(-value)))


\* ------------------------------------------------------------ state
VARIABLES
    net,                \* the NeuralNetwork: learningRate, inputWeights, outputWeights
    lr0,                \* the learningRate argument the constructor was given
    pc,                 \* per caller: the position inside Train, or "idle"
    input,              \* per caller: the input span of the call in progress
    target,             \* per caller: the target span of the call in progress
    hiddenValues,       \* per caller: Train's local array
    outputValues,       \* per caller: Train's local array
    outputErrorValues,  \* per caller: Train's local array
    hiddenErrorValues,  \* per caller: Train's local array
    i,                  \* per caller: outer loop index
    j,                  \* per caller: inner loop index
    reg,                \* per caller: the weight loaded by a += in progress
    qHidden,            \* Query's local hiddenValues
    qOutput,            \* the array the last Query returned
    qInput,             \* the input of the last Query
    status,             \* per caller: how the last call ended
    lastOp,             \* the operation the last step belongs to
    pre,                \* per caller: the network as it was when Train was entered
    args,               \* per caller: the spans as they were when Train was entered
    offered,            \* per caller: the spans offered to its last call
    first,              \* input and output of the first Query since Train was last entered,
                        \* and whether the last Query was a later one with that input
    trainCalls,         \* number of Train calls started
    engine,             \* state of defaultRandomEngine
    rowPc,              \* constructor: per row, position of its fill
    rowReg,             \* constructor: per row, the engine state it loaded
    ctorPhase,          \* constructor: which for_each is running
    draws               \* constructor: per filled weight, the engine state it came from

vars == << net, lr0, pc, input, target, hiddenValues, outputValues,
           outputErrorValues, hiddenErrorValues, i, j, reg, qHidden, qOutput,
           qInput, status, lastOp, pre, args, offered, first, trainCalls,
           engine, rowPc, rowReg, ctorPhase, draws >>

ctorVars == << engine, rowPc, rowReg, ctorPhase, draws >>
queryVars == << qHidden, qOutput, qInput >>
localVars == << hiddenValues, outputValues, outputErrorValues, hiddenErrorValues >>

Callers == {1, 2}

ZeroArray(n) == [k \in 1..n |-> 0]

\* ------------------------------------------------------------ spans
\* a span that only has to be long enough
SpanAtLeast(v, extent) == Len(v) >= extent

\* gsl::span<float, Extent>: a span of static extent holds exactly Extent elements
SpanOk(v, extent) == Len(v) = extent

\* ------------------------------------------------------------ Query
\* hiddenValues[i] += input[j] * inputWeights[i][j], j = from..NumInputNodes
RECURSIVE QueryHiddenLoop(_, _, _, _)
QueryHiddenLoop(acc, in, row, from) ==
    IF from > NumInputNodes THEN acc
    ELSE QueryHiddenLoop(FAdd(acc, FMul(in[from], row[from])), in, row, from + 1)

\* outputValues[i] += hiddenValues[j] * outputWeights[i][j], j = from..NumHiddenNodes
RECURSIVE QueryOutputLoop(_, _, _, _)
QueryOutputLoop(acc, hid, row, from) ==
    IF from > NumHiddenNodes THEN acc
    ELSE QueryOutputLoop(FAdd(acc, FMul(hid[from], row[from])), hid, row, from + 1)

\* hiddenValues left as the previous call wrote it
QueryHiddenStale == qHidden

\* std::array<float, NumHiddenNodes> hiddenValues{};
QueryHiddenInit == ZeroArray(NumHiddenNodes)

\* std::array<float, NumOutputNodes> outputValues{};
QueryOutputInit == ZeroArray(NumOutputNodes)

QueryHidden(n, in) ==
    [h \in 1..NumHiddenNodes |->
        Sigmoid(QueryHiddenLoop(QueryHiddenInit[h], in, n.inputWeights[h], 1))]

QueryOutput(n, hid) ==
    [o \in 1..NumOutputNodes |->
        Sigmoid(QueryOutputLoop(QueryOutputInit[o], hid, n.outputWeights[o], 1))]

\* a Query that accumulates into the network instead of into its local array
QueryNetAccumulates(n, in) == [n EXCEPT !.inputWeights[1][1] = FAdd(@, in[1])]

\* what a Query leaves behind in the network: it takes it by const reference
QueryNet(n, in) == n

Query(in) ==
    /\ pc[1] = "idle"
    /\ SpanOk(in, NumInputNodes)
    /\ qHidden' = QueryHidden(net, in)
    /\ qOutput' = QueryOutput(net, qHidden')
    /\ qInput' = in
    /\ net' = QueryNet(net, in)
    /\ first' = IF first = << >> THEN << in, qOutput', FALSE >>
                ELSE << first[1], first[2], first[1] = in >>
    /\ status' = [status EXCEPT ![1] = "ok"]
    /\ offered' = [offered EXCEPT ![1] = << in >>]
    /\ lastOp' = "Query"
    /\ UNCHANGED << lr0, pc, input, target, localVars, i, j, reg, pre, args,
                    trainCalls, ctorVars >>

\* a Query whose argument is no span of NumInputNodes elements never enters the body
QueryReject(in) ==
    /\ pc[1] = "idle"
    /\ ~SpanOk(in, NumInputNodes)
    /\ status' = [status EXCEPT ![1] = "shapeError"]
    /\ offered' = [offered EXCEPT ![1] = << in >>]
    /\ pre' = [pre EXCEPT ![1] = net]
    /\ lastOp' = "Reject"
    /\ UNCHANGED << net, lr0, pc, input, target, localVars, i, j, reg, queryVars,
                    args, first, trainCalls, ctorVars >>


\* ------------------------------------------------------------ Train
MaxTrainCalls == 2

\* transform_reduce handed the first range twice
RECURSIVE TransformReduceSelf(_, _, _, _)
TransformReduceSelf(xs, ys, init, from) ==
    IF from > Len(xs) THEN init
    ELSE TransformReduceSelf(xs, ys, FAdd(init, FMul(xs[from], xs[from])), from + 1)

\* std::transform_reduce(seq, first1, last1, first2, init, plus, multiplies),
\* elements from..Len(xs)
RECURSIVE TransformReduce(_, _, _, _)
TransformReduce(xs, ys, init, from) ==
    IF from > Len(xs) THEN init
    ELSE TransformReduce(xs, ys, FAdd(init, FMul(xs[from], ys[from])), from + 1)

\* the output weights updated before the hidden error is computed
PhaseAfterUpdateFirst(p) ==
    CASE p = "fwdHidden" -> "sigHidden"
      [] p = "sigHidden" -> "fwdOutput"
      [] p = "fwdOutput" -> "sigOutput"
      [] p = "sigOutput" -> "outErr"
      [] p = "outErr"    -> "updOut"
      [] p = "updOut"    -> "hidErr"
      [] p = "hidErr"    -> "updIn"
      [] p = "updIn"     -> "done"

\* the order of the statements of Train
PhaseAfter(p) ==
    CASE p = "fwdHidden" -> "sigHidden"
      [] p = "sigHidden" -> "fwdOutput"
      [] p = "fwdOutput" -> "sigOutput"
      [] p = "sigOutput" -> "outErr"
      [] p = "outErr"    -> "hidErr"
      [] p = "hidErr"    -> "updOut"
      [] p = "updOut"    -> "updIn"
      [] p = "updIn"     -> "done"

\* the output delta without the sigmoid's derivative
OutputDeltaNoDerivative(lr, err, out, hid) == FMul(lr, FMul(err, hid))

\* learningRate * (outputErrorValues[i] * outputValues[i] * (1 - outputValues[i]) * hiddenValues[j])
OutputDelta(lr, err, out, hid) ==
    FMul(lr, FMul(FMul(FMul(err, out), FSub(One, out)), hid))

\* learningRate * (hiddenErrorValues[i] * hiddenValues[i] * (1 - hiddenValues[i]) * input[j])
InputDelta(lr, herr, hid, in) ==
    FMul(lr, FMul(FMul(FMul(herr, hid), FSub(One, hid)), in))

\* neuralNetwork.outputWeights[r][c] = v
StoreOutputWeight(n, r, c, v) == [n EXCEPT !.outputWeights[r][c] = v]

\* a store that also decays the learning rate
StoreInputWeightDecay(n, r, c, v) ==
    [n EXCEPT !.inputWeights[r][c] = v, !.learningRate = FMul(@, One \div 2)]

\* neuralNetwork.inputWeights[r][c] = v
StoreInputWeight(n, r, c, v) == [n EXCEPT !.inputWeights[r][c] = v]

\* leave the doubly nested loop (rows x cols) of phase p, or move to its next element
LoopStep(t, p, rows, cols) ==
    IF j[t] < cols
    THEN /\ pc' = [pc EXCEPT ![t] = p]
         /\ j' = [j EXCEPT ![t] = @ + 1]
         /\ UNCHANGED i
    ELSE IF i[t] < rows
    THEN /\ pc' = [pc EXCEPT ![t] = p]
         /\ j' = [j EXCEPT ![t] = 1]
         /\ i' = [i EXCEPT ![t] = @ + 1]
    ELSE /\ pc' = [pc EXCEPT ![t] = PhaseAfter(p)]
         /\ j' = [j EXCEPT ![t] = 1]
         /\ i' = [i EXCEPT ![t] = 1]

\* the call: the spans are bound and the local arrays are value-initialised
TrainEnter(t, in, tg) ==
    /\ pc[t] = "idle"
    /\ trainCalls < MaxTrainCalls
    /\ SpanOk(in, NumInputNodes)
    /\ SpanOk(tg, NumOutputNodes)
    /\ input' = [input EXCEPT ![t] = in]
    /\ target' = [target EXCEPT ![t] = tg]
    /\ hiddenValues' = [hiddenValues EXCEPT ![t] = ZeroArray(NumHiddenNodes)]
    /\ outputValues' = [outputValues EXCEPT ![t] = ZeroArray(NumOutputNodes)]
    /\ outputErrorValues' = [outputErrorValues EXCEPT ![t] = ZeroArray(NumOutputNodes)]
    /\ hiddenErrorValues' = [hiddenErrorValues EXCEPT ![t] = ZeroArray(NumHiddenNodes)]
    /\ pc' = [pc EXCEPT ![t] = "fwdHidden"]
    /\ i' = [i EXCEPT ![t] = 1]
    /\ j' = [j EXCEPT ![t] = 1]
    /\ pre' = [pre EXCEPT ![t] = net]
    /\ args' = [args EXCEPT ![t] = << in, tg >>]
    /\ offered' = [offered EXCEPT ![t] = << in, tg >>]
    /\ status' = [status EXCEPT ![t] = "running"]
    /\ first' = << >>
    /\ trainCalls' = trainCalls + 1
    /\ lastOp' = "Train"
    /\ UNCHANGED << net, lr0, reg, queryVars, ctorVars >>

\* a Train that waits until no other caller is inside Train
TrainBeginLocked(t, in, tg) ==
    /\ \A u \in Callers \ {t} : pc[u] = "idle"
    /\ TrainEnter(t, in, tg)

\* Train is entered as soon as it is called: it acquires nothing first
TrainBegin(t, in, tg) == TrainEnter(t, in, tg)

\* a Train whose arguments are no spans of the fixed extents never enters the body
TrainReject(t, in, tg) ==
    /\ pc[t] = "idle"
    /\ ~(SpanOk(in, NumInputNodes) /\ SpanOk(tg, NumOutputNodes))
    /\ status' = [status EXCEPT ![t] = "shapeError"]
    /\ offered' = [offered EXCEPT ![t] = << in, tg >>]
    /\ pre' = [pre EXCEPT ![t] = net]
    /\ lastOp' = "Reject"
    /\ UNCHANGED << net, lr0, pc, input, target, localVars, i, j, reg, queryVars,
                    args, first, trainCalls, ctorVars >>

\* one call of the first generate's lambda: hiddenValues[i] = transform_reduce(...)
TrainFwdHidden(t) ==
    /\ pc[t] = "fwdHidden"
    /\ hiddenValues' = [hiddenValues EXCEPT ![t][i[t]] =
            TransformReduce(input[t], net.inputWeights[i[t]], 0, 1)]
    /\ IF i[t] < NumHiddenNodes
       THEN i' = [i EXCEPT ![t] = @ + 1] /\ UNCHANGED pc
       ELSE i' = [i EXCEPT ![t] = 1] /\ pc' = [pc EXCEPT ![t] = PhaseAfter("fwdHidden")]
    /\ lastOp' = "Train"
    /\ UNCHANGED << net, lr0, input, target, outputValues, outputErrorValues,
                    hiddenErrorValues, j, reg, queryVars, status, pre, args,
                    offered, first, trainCalls, ctorVars >>

\* std::transform over hiddenValues with the sigmoid
TrainSigmoidHidden(t) ==
    /\ pc[t] = "sigHidden"
    /\ hiddenValues' = [hiddenValues EXCEPT ![t] =
            [h \in 1..NumHiddenNodes |-> Sigmoid(hiddenValues[t][h])]]
    /\ pc' = [pc EXCEPT ![t] = PhaseAfter("sigHidden")]
    /\ lastOp' = "Train"
    /\ UNCHANGED << net, lr0, input, target, outputValues, outputErrorValues,
                    hiddenErrorValues, i, j, reg, queryVars, status, pre, args,
                    offered, first, trainCalls, ctorVars >>

\* one call of the second generate's lambda: outputValues[i] = transform_reduce(...)
TrainFwdOutput(t) ==
    /\ pc[t] = "fwdOutput"
    /\ outputValues' = [outputValues EXCEPT ![t][i[t]] =
            TransformReduce(hiddenValues[t], net.outputWeights[i[t]], 0, 1)]
    /\ IF i[t] < NumOutputNodes
       THEN i' = [i EXCEPT ![t] = @ + 1] /\ UNCHANGED pc
       ELSE i' = [i EXCEPT ![t] = 1] /\ pc' = [pc EXCEPT ![t] = PhaseAfter("fwdOutput")]
    /\ lastOp' = "Train"
    /\ UNCHANGED << net, lr0, input, target, hiddenValues, outputErrorValues,
                    hiddenErrorValues, j, reg, queryVars, status, pre, args,
                    offered, first, trainCalls, ctorVars >>

\* std::transform over outputValues with the sigmoid
TrainSigmoidOutput(t) ==
    /\ pc[t] = "sigOutput"
    /\ outputValues' = [outputValues EXCEPT ![t] =
            [o \in 1..NumOutputNodes |-> Sigmoid(outputValues[t][o])]]
    /\ pc' = [pc EXCEPT ![t] = PhaseAfter("sigOutput")]
    /\ lastOp' = "Train"
    /\ UNCHANGED << net, lr0, input, target, hiddenValues, outputErrorValues,
                    hiddenErrorValues, i, j, reg, queryVars, status, pre, args,
                    offered, first, trainCalls, ctorVars >>

\* std::transform(target, outputValues, outputErrorValues, minus)
TrainOutputError(t) ==
    /\ pc[t] = "outErr"
    /\ outputErrorValues' = [outputErrorValues EXCEPT ![t] =
            [o \in 1..NumOutputNodes |-> FSub(target[t][o], outputValues[t][o])]]
    /\ pc' = [pc EXCEPT ![t] = PhaseAfter("outErr")]
    /\ lastOp' = "Train"
    /\ UNCHANGED << net, lr0, input, target, hiddenValues, outputValues,
                    hiddenErrorValues, i, j, reg, queryVars, status, pre, args,
                    offered, first, trainCalls, ctorVars >>

\* hiddenErrorValues[i] += outputWeights[j][i] * outputErrorValues[j]
TrainHiddenError(t) ==
    /\ pc[t] = "hidErr"
    /\ hiddenErrorValues' = [hiddenErrorValues EXCEPT ![t][i[t]] =
            FAdd(@, FMul(net.outputWeights[j[t]][i[t]], outputErrorValues[t][j[t]]))]
    /\ LoopStep(t, "hidErr", NumHiddenNodes, NumOutputNodes)
    /\ lastOp' = "Train"
    /\ UNCHANGED << net, lr0, input, target, hiddenValues, outputValues,
                    outputErrorValues, reg, queryVars, status, pre, args,
                    offered, first, trainCalls, ctorVars >>

\* outputWeights[i][j] += ...: the read of the weight
TrainUpdOutLoad(t) ==
    /\ pc[t] = "updOut"
    /\ reg' = [reg EXCEPT ![t] = net.outputWeights[i[t]][j[t]]]
    /\ pc' = [pc EXCEPT ![t] = "updOutStore"]
    /\ lastOp' = "Train"
    /\ UNCHANGED << net, lr0, input, target, localVars, i, j, queryVars, status,
                    pre, args, offered, first, trainCalls, ctorVars >>

\* outputWeights[i][j] += ...: the write of the sum
TrainUpdOutStore(t) ==
    /\ pc[t] = "updOutStore"
    /\ net' = StoreOutputWeight(net, i[t], j[t],
            FAdd(reg[t], OutputDelta(net.learningRate, outputErrorValues[t][i[t]],
                                     outputValues[t][i[t]], hiddenValues[t][j[t]])))
    /\ LoopStep(t, "updOut", NumOutputNodes, NumHiddenNodes)
    /\ lastOp' = "Train"
    /\ UNCHANGED << lr0, input, target, localVars, reg, queryVars, status, pre,
                    args, offered, first, trainCalls, ctorVars >>

\* inputWeights[i][j] += ...: the read of the weight
TrainUpdInLoad(t) ==
    /\ pc[t] = "updIn"
    /\ reg' = [reg EXCEPT ![t] = net.inputWeights[i[t]][j[t]]]
    /\ pc' = [pc EXCEPT ![t] = "updInStore"]
    /\ lastOp' = "Train"
    /\ UNCHANGED << net, lr0, input, target, localVars, i, j, queryVars, status,
                    pre, args, offered, first, trainCalls, ctorVars >>

\* inputWeights[i][j] += ...: the write of the sum
TrainUpdInStore(t) ==
    /\ pc[t] = "updInStore"
    /\ net' = StoreInputWeight(net, i[t], j[t],
            FAdd(reg[t], InputDelta(net.learningRate, hiddenErrorValues[t][i[t]],
                                    hiddenValues[t][i[t]], input[t][j[t]])))
    /\ LoopStep(t, "updIn", NumHiddenNodes, NumInputNodes)
    /\ lastOp' = "Train"
    /\ UNCHANGED << lr0, input, target, localVars, reg, queryVars, status, pre,
                    args, offered, first, trainCalls, ctorVars >>

TrainReturn(t) ==
    /\ pc[t] = "done"
    /\ pc' = [pc EXCEPT ![t] = "idle"]
    /\ status' = [status EXCEPT ![t] = "ok"]
    /\ lastOp' = "Return"
    /\ UNCHANGED << net, lr0, input, target, localVars, i, j, reg, queryVars, pre,
                    args, offered, first, trainCalls, ctorVars >>

TrainStep(t) ==
    \/ TrainFwdHidden(t)
    \/ TrainSigmoidHidden(t)
    \/ TrainFwdOutput(t)
    \/ TrainSigmoidOutput(t)
    \/ TrainOutputError(t)
    \/ TrainHiddenError(t)
    \/ TrainUpdOutLoad(t)
    \/ TrainUpdOutStore(t)
    \/ TrainUpdInLoad(t)
    \/ TrainUpdInStore(t)
    \/ TrainReturn(t)


\* ------------------------------------------------------------ the caller
\* the values the model draws vectors from
InputVals == {0, One}
TargetVals == {0, One}

\* the inputs: the vectors over InputVals whose first element is set
Inputs == {in \in [1..NumInputNodes -> InputVals] : in[1] = One}

\* the targets: the one-hot vectors
Targets == {tg \in [1..NumOutputNodes -> TargetVals] :
                Cardinality({o \in 1..NumOutputNodes : tg[o] = One}) = 1}

\* spans of a wrong length, one shorter and one longer than the extent
BadInputs == {[k \in 1..(NumInputNodes - 1) |-> One], [k \in 1..(NumInputNodes + 1) |-> One]}
BadTargets == {[k \in 1..(NumOutputNodes - 1) |-> One], [k \in 1..(NumOutputNodes + 1) |-> One]}

\* the weight matrices the model starts from: small weights of mixed sign, and
\* large weights that drive the sigmoid into saturation
WeightFill(kind, r, c) ==
    CASE kind = "mixed" -> IF (r + c) % 2 = 0 THEN 24 ELSE -12
      [] kind = "large" -> IF r = 1 THEN 72 ELSE -64
      [] kind = "skew"  -> 8 * r - 20 * c

WeightMatrix(kind, rows, cols) == [r \in 1..rows |-> [c \in 1..cols |-> WeightFill(kind, r, c)]]

LearningRates == {8, 32}

Networks ==
    {[learningRate |-> lr,
      inputWeights |-> WeightMatrix(a, NumHiddenNodes, NumInputNodes),
      outputWeights |-> WeightMatrix(b, NumOutputNodes, NumHiddenNodes)] :
        lr \in LearningRates, a \in {"mixed", "large"}, b \in {"skew", "large"}}

\* the constructor's variables once construction is over
CtorDone ==
    /\ engine = 0
    /\ rowPc = << >>
    /\ rowReg = << >>
    /\ ctorPhase = "done"
    /\ draws = << >>

\* no call has been made yet
CallersIdle ==
    /\ pc = [t \in Callers |-> "idle"]
    /\ input = [t \in Callers |-> ZeroArray(NumInputNodes)]
    /\ target = [t \in Callers |-> ZeroArray(NumOutputNodes)]
    /\ hiddenValues = [t \in Callers |-> ZeroArray(NumHiddenNodes)]
    /\ outputValues = [t \in Callers |-> ZeroArray(NumOutputNodes)]
    /\ outputErrorValues = [t \in Callers |-> ZeroArray(NumOutputNodes)]
    /\ hiddenErrorValues = [t \in Callers |-> ZeroArray(NumHiddenNodes)]
    /\ i = [t \in Callers |-> 1]
    /\ j = [t \in Callers |-> 1]
    /\ reg = [t \in Callers |-> 0]
    /\ qHidden = ZeroArray(NumHiddenNodes)
    /\ qOutput = ZeroArray(NumOutputNodes)
    /\ qInput = ZeroArray(NumInputNodes)
    /\ status = [t \in Callers |-> "none"]
    /\ lastOp = "none"
    /\ pre = [t \in Callers |-> net]
    /\ args = [t \in Callers |-> << >>]
    /\ offered = [t \in Callers |-> << >>]
    /\ first = << >>
    /\ trainCalls = 0

\* the state after construction, before the first call
Init ==
    /\ net \in Networks
    /\ lr0 = net.learningRate
    /\ CallersIdle
    /\ CtorDone

\* one caller owns the network and calls Train and Query one after the other
Next ==
    \/ \E in \in Inputs \cup BadInputs, tg \in Targets \cup BadTargets : TrainBegin(1, in, tg)
    \/ \E in \in BadInputs : TrainReject(1, in, [k \in 1..NumOutputNodes |-> IF k = 1 THEN One ELSE 0])
    \/ \E tg \in BadTargets : TrainReject(1, [k \in 1..NumInputNodes |-> One], tg)
    \/ \E in \in Inputs \cup BadInputs : Query(in)
    \/ \E in \in Inputs \cup BadInputs : QueryReject(in)
    \/ TrainStep(1)

Spec == Init /\ [][Next]_vars


\* ------------------------------------------------------------ two callers
\* the network two callers share
RaceNetworks ==
    {[learningRate |-> lr,
      inputWeights |-> WeightMatrix("mixed", NumHiddenNodes, NumInputNodes),
      outputWeights |-> WeightMatrix("skew", NumOutputNodes, NumHiddenNodes)] :
        lr \in LearningRates}

\* the sample each caller trains on
RaceInput(t) == [k \in 1..NumInputNodes |-> IF k <= t THEN One ELSE 0]
RaceTarget(t) == [k \in 1..NumOutputNodes |-> IF k = t THEN One ELSE 0]

\* each caller calls Train once
RaceBegin(t) ==
    /\ status[t] = "none"
    /\ TrainBegin(t, RaceInput(t), RaceTarget(t))

InitRace ==
    /\ Init
    /\ net \in RaceNetworks

\* two callers inside Train on the same network, interleaved at each step
NextRace ==
    \E t \in Callers :
        \/ RaceBegin(t)
        \/ TrainStep(t)

SpecRace == InitRace /\ [][NextRace]_vars

\* ------------------------------------------------------------ the constructor
\* defaultRandomEngine(): the state advances and the new state is the result
EngineNext(s) == (5 * s + 3) % 16

\* the seeds std::random_device hands out
Seeds == {0, 7}

\* normalDistribution(defaultRandomEngine): the weight made from the engine's result
NormalDraw(s) == 3 * s - 24

\* the rows and the columns of the matrix a for_each fills
CtorRows(phase) == IF phase = "input" THEN NumHiddenNodes ELSE NumOutputNodes
CtorCols(phase) == IF phase = "input" THEN NumInputNodes ELSE NumHiddenNodes

\* every row's std::generate is about to make its first draw
RowsAtStart(phase) == [r \in 1..CtorRows(phase) |-> [col |-> 1, stage |-> "load"]]

\* the constructor has set learningRate and is about to run the first for_each;
\* the weights hold no value yet (0 stands for it, nothing reads it)
InitCtor ==
    /\ \E lr \in LearningRates :
         net = [learningRate |-> lr,
                inputWeights |-> [h \in 1..NumHiddenNodes |-> ZeroArray(NumInputNodes)],
                outputWeights |-> [o \in 1..NumOutputNodes |-> ZeroArray(NumHiddenNodes)]]
    /\ lr0 = net.learningRate
    /\ CallersIdle
    /\ engine \in Seeds
    /\ ctorPhase = "input"
    /\ rowPc = RowsAtStart("input")
    /\ rowReg = [r \in 1..CtorRows("input") |-> 0]
    /\ draws = << >>

callVars == << lr0, pc, input, target, localVars, i, j, reg, queryVars, status,
               lastOp, pre, args, offered, first, trainCalls >>

\* row r's draw reads the engine's state
CtorLoad(r) ==
    /\ ctorPhase \in {"input", "output"}
    /\ r \in DOMAIN rowPc
    /\ rowPc[r].stage = "load"
    /\ rowReg' = [rowReg EXCEPT ![r] = engine]
    /\ rowPc' = [rowPc EXCEPT ![r].stage = "store"]
    /\ UNCHANGED << net, engine, ctorPhase, draws, callVars >>

\* row r's draw writes the engine's new state and the weight made from it
CtorStore(r) ==
    /\ ctorPhase \in {"input", "output"}
    /\ r \in DOMAIN rowPc
    /\ rowPc[r].stage = "store"
    /\ engine' = EngineNext(rowReg[r])
    /\ net' = IF ctorPhase = "input"
              THEN [net EXCEPT !.inputWeights[r][rowPc[r].col] = NormalDraw(engine')]
              ELSE [net EXCEPT !.outputWeights[r][rowPc[r].col] = NormalDraw(engine')]
    /\ draws' = (<< ctorPhase, r, rowPc[r].col >> :> rowReg[r]) @@ draws
    /\ rowPc' = [rowPc EXCEPT ![r] =
            IF rowPc[r].col < CtorCols(ctorPhase)
            THEN [col |-> rowPc[r].col + 1, stage |-> "load"]
            ELSE [col |-> rowPc[r].col, stage |-> "end"]]
    /\ UNCHANGED << rowReg, ctorPhase, callVars >>

\* a for_each returns once every row is filled; the next one starts, or the
\* constructor returns
CtorNextPhase ==
    /\ ctorPhase \in {"input", "output"}
    /\ \A r \in DOMAIN rowPc : rowPc[r].stage = "end"
    /\ IF ctorPhase = "input"
       THEN /\ ctorPhase' = "output"
            /\ rowPc' = RowsAtStart("output")
            /\ rowReg' = [r \in 1..CtorRows("output") |-> 0]
       ELSE /\ ctorPhase' = "done"
            /\ UNCHANGED << rowPc, rowReg >>
    /\ UNCHANGED << net, engine, draws, callVars >>

\* the rows of one for_each(par_unseq) run in any interleaving
NextCtor ==
    \/ \E r \in DOMAIN rowPc : CtorLoad(r)
    \/ \E r \in DOMAIN rowPc : CtorStore(r)
    \/ CtorNextPhase

SpecCtor == InitCtor /\ [][NextCtor]_vars

\* ------------------------------------------------------------ properties
\* the closed form of one Train call, over the network n it is entered with
RECURSIVE RefSum(_, _)
RefSum(terms, n) == IF n = 0 THEN 0 ELSE FAdd(RefSum(terms, n - 1), terms[n])

\* hidden[h] = sigmoid(sum_i input[i] * inputWeights[h][i])
RefHidden(n, in) ==
    [h \in 1..NumHiddenNodes |->
        Sigmoid(RefSum([k \in 1..NumInputNodes |-> FMul(in[k], n.inputWeights[h][k])],
                       NumInputNodes))]

\* output[o] = sigmoid(sum_h hidden[h] * outputWeights[o][h])
RefOutput(n, hid) ==
    [o \in 1..NumOutputNodes |->
        Sigmoid(RefSum([h \in 1..NumHiddenNodes |-> FMul(hid[h], n.outputWeights[o][h])],
                       NumHiddenNodes))]

\* outputError[o] = target[o] - output[o]
RefOutputError(tg, out) == [o \in 1..NumOutputNodes |-> FSub(tg[o], out[o])]

\* hiddenError[h] = sum_o outputWeights[o][h] * outputError[o]
RefHiddenError(n, oerr) ==
    [h \in 1..NumHiddenNodes |->
        RefSum([o \in 1..NumOutputNodes |-> FMul(n.outputWeights[o][h], oerr[o])],
               NumOutputNodes)]

\* outputWeights[o][h] + learningRate * (outputError[o] * output[o] * (1 - output[o]) * hidden[h])
RefOutputWeights(n, hid, out, oerr) ==
    [o \in 1..NumOutputNodes |-> [h \in 1..NumHiddenNodes |->
        FAdd(n.outputWeights[o][h],
             FMul(n.learningRate,
                  FMul(FMul(FMul(oerr[o], out[o]), FSub(One, out[o])), hid[h])))]]

\* inputWeights[h][i] + learningRate * (hiddenError[h] * hidden[h] * (1 - hidden[h]) * input[i])
RefInputWeights(n, in, hid, herr) ==
    [h \in 1..NumHiddenNodes |-> [k \in 1..NumInputNodes |->
        FAdd(n.inputWeights[h][k],
             FMul(n.learningRate,
                  FMul(FMul(FMul(herr[h], hid[h]), FSub(One, hid[h])), in[k])))]]

TrainRef(n, in, tg) ==
    LET hid == RefHidden(n, in)
        out == RefOutput(n, hid)
        oerr == RefOutputError(tg, out)
        herr == RefHiddenError(n, oerr)
    IN  [learningRate |-> n.learningRate,
         inputWeights |-> RefInputWeights(n, in, hid, herr),
         outputWeights |-> RefOutputWeights(n, hid, out, oerr)]

\* C1: a Query step leaves the learning rate and every weight as they were,
\* whatever Train and Query calls came before it.
QueryReadOnly == [][lastOp' = "Query" => net' = net]_vars

\* C1 witness: a Query has returned on a network that Train has changed
QueryAfterTrain ==
    /\ lastOp = "Query"
    /\ trainCalls > 0
    /\ net \notin Networks

\* C2: when Train has finished its last write, the network is the closed form
\* of the update, taken over the network and the spans the call was entered with.
TrainMatchesClosedForm ==
    pc[1] = "done" => net = TrainRef(pre[1], args[1][1], args[1][2])

\* C2 witness: a Train call has finished and has changed both weight matrices
TrainChangedBoth ==
    /\ pc[1] = "done"
    /\ net.inputWeights # pre[1].inputWeights
    /\ net.outputWeights # pre[1].outputWeights

QueryDeterministic ==
    (lastOp = "Query" /\ first # << >> /\ first[1] = qInput) => qOutput = first[2]

\* C4 witness: the same input has been queried a second time, on trained weights
QueriedAgain ==
    /\ lastOp = "Query"
    /\ first # << >>
    /\ first[3]
    /\ first[1] = qInput
    /\ trainCalls > 0

\* C5 as stated: every element of a Query result is strictly between 0 and 1.
OutputStrictlyInside ==
    lastOp = "Query" => \A o \in 1..NumOutputNodes : 0 < qOutput[o] /\ qOutput[o] < One

\* C5 amended: every element of a Query result is between 0 and 1, the ends included.
OutputInClosedRange ==
    lastOp = "Query" => \A o \in 1..NumOutputNodes : 0 <= qOutput[o] /\ qOutput[o] <= One

\* C5 witness: a Query has returned an element that is exactly 1 and one that is exactly 0
OutputSaturated ==
    /\ lastOp = "Query"
    /\ \E o \in 1..NumOutputNodes : qOutput[o] = One
    /\ \E o \in 1..NumOutputNodes : qOutput[o] = 0

\* C6: the learning rate is the constructor's argument, the weight matrices keep
\* their shapes, and a Train call in progress has left its spans as it got them.
NetworkFrame ==
    /\ net.learningRate = lr0
    /\ DOMAIN net = {"learningRate", "inputWeights", "outputWeights"}
    /\ DOMAIN net.inputWeights = 1..NumHiddenNodes
    /\ \A h \in 1..NumHiddenNodes : DOMAIN net.inputWeights[h] = 1..NumInputNodes
    /\ DOMAIN net.outputWeights = 1..NumOutputNodes
    /\ \A o \in 1..NumOutputNodes : DOMAIN net.outputWeights[o] = 1..NumHiddenNodes
    /\ \A t \in Callers : pc[t] # "idle" => input[t] = args[t][1] /\ target[t] = args[t][2]

\* C6 witness: a second Train call has returned and has changed the weights
SecondTrainReturned ==
    /\ lastOp = "Return"
    /\ trainCalls = 2
    /\ net.inputWeights # pre[1].inputWeights

\* C7: inside one Train call nothing is written before the hidden error is
\* complete; the hidden error is the one of the output weights as they were on
\* entry; the input weights are written only after every output weight is.
PhaseOrder ==
    /\ pc[1] \in {"fwdHidden", "sigHidden", "fwdOutput", "sigOutput", "outErr", "hidErr"}
         => net = pre[1]
    /\ pc[1] \in {"hidErr", "updOut", "updOutStore", "updIn", "updInStore", "done"}
         => outputErrorValues[1] = [o \in 1..NumOutputNodes |-> FSub(target[1][o], outputValues[1][o])]
    /\ pc[1] \in {"updOut", "updOutStore", "updIn", "updInStore", "done"}
         => hiddenErrorValues[1] = RefHiddenError(pre[1], outputErrorValues[1])
    /\ pc[1] \in {"updOut", "updOutStore"}
         => net.inputWeights = pre[1].inputWeights
    /\ pc[1] \in {"updIn", "updInStore", "done"}
         => net.outputWeights = RefOutputWeights(pre[1], hiddenValues[1], outputValues[1],
                                                 outputErrorValues[1])

\* C7 witness: the output weights are written, the input weights not yet, and
\* the hidden error is not zero
BetweenUpdates ==
    /\ pc[1] = "updIn"
    /\ i[1] = 1 /\ j[1] = 1
    /\ net.outputWeights # pre[1].outputWeights
    /\ net.inputWeights = pre[1].inputWeights
    /\ \E h \in 1..NumHiddenNodes : hiddenErrorValues[1][h] # 0

TrainTakesNoLock ==
    \A t \in Callers : status[t] = "none" => ENABLED RaceBegin(t)

\* C9 witness: both calls have returned and the weights are those of neither
\* serial order of the two calls
LostUpdate ==
    /\ \A t \in Callers : status[t] = "ok" /\ pc[t] = "idle"
    /\ \A n0 \in RaceNetworks :
        /\ net # TrainRef(TrainRef(n0, args[1][1], args[1][2]), args[2][1], args[2][2])
        /\ net # TrainRef(TrainRef(n0, args[2][1], args[2][2]), args[1][1], args[1][2])


\* the number of weights the constructor fills
NumWeights == NumHiddenNodes * NumInputNodes + NumOutputNodes * NumHiddenNodes

\* C10 as stated: the fills of two rows touch no common state, so no row is in
\* the middle of a draw while another row has read the engine and not yet
\* written it back, and once the constructor returns every weight has consumed
\* an engine state of its own.
RowFillsIndependent ==
    /\ \A r1, r2 \in DOMAIN rowPc :
          (r1 # r2 /\ ctorPhase # "done") => ~(rowPc[r1].stage = "store" /\ rowPc[r2].stage = "store")
    /\ ctorPhase = "done" =>
          /\ Cardinality(DOMAIN draws) = NumWeights
          /\ Cardinality({draws[w] : w \in DOMAIN draws}) = NumWeights

====
